---- MODULE Spec2Model ----
(***************************************************************************)
(* OpenSO2Home: station synchronisation.                                   *)
(*                                                                         *)
(* Station (src/openso2gui/station.py) wraps one SFTP session: connect,    *)
(* sync, pull_status and pull_log.  MainWindow (src/OpenSO2UI.py) owns the *)
(* registry of stations, the sync timer and the sync thread: toggleSync    *)
(* and _station_sync start at most one SyncWorker pass at a time.          *)
(* SyncWorker (openso2gui/gui_functions.py) is not part of the sources:    *)
(* its station loop is modelled from spec.md section 4.5.                  *)
(***************************************************************************)
EXTENDS Integers, Sequences, FiniteSets, TLC

\* ------------------------------------------------------------------ bounds
MaxFiles == 2          \* file names are 1..MaxFiles
MaxTime == 4           \* times of day are 0..MaxTime
MaxScan == 2           \* a station's scans hold at most MaxScan spectra
MaxVal == 1            \* SO2 columns and intensities are -MaxVal..MaxVal
Prec == 4              \* floats have Prec significant bits
FracBits == 8          \* floats are counted in units of 2^-FracBits
MaxLog == 4            \* a station's log file has at most MaxLog lines

Files == 1..MaxFiles
Times == 0..MaxTime
Names == {"A", "B"}

VARIABLES
    order,        \* MainWindow.stations: keys in insertion order
    stations,     \* MainWindow.stations: name -> Station object
    local,        \* local directory of each station: [exists, files]
    remote,       \* remote directory of each station: [exists, listing]
    statusDir,    \* the local folder 'Station' of the status files exists
    unreported,   \* per station: files sync added locally that no sync has returned
    syncing,      \* MainWindow.syncing
    timerActive,  \* MainWindow.syncTimer is started
    nActive,      \* number of sync threads that are running
    wpc,          \* SyncWorker: "idle", "run", "done"
    widx,         \* SyncWorker: index in order of the station being visited
    wstep,        \* SyncWorker: next call on that station
    wmode,        \* SyncWorker: sync_mode handed to the worker
    passLog,      \* SyncWorker: outcome per station in the current pass
    emitted,      \* SyncWorker: station notifications emitted in the current pass
    wcontext,     \* SyncWorker: the date and settings handed to the worker
    wstart,       \* the stations that were registered and enabled when the pass started
    context,      \* today's date and the plume, pairing and quality settings
    settingsOk,   \* the text of vlat/vlon/plume_alt/lo_scd_lim/hi_scd_lim parses as float
    resDir,       \* the local results folder exists
    win,          \* the four sync time widgets
    tick,         \* the invocation of _station_sync made by the latest step, if any
    last,         \* the call of a Station method made by the latest step, if any
    prev,         \* direct calls only: summary of the call made by the step before
    scan,         \* a station's scans on disk, the quality limits and the filter checkbox
    station_so2_data, \* MainWindow.station_so2_data[name], once it is set
    info,         \* per key of MainWindow.stations: the object's name and azimuth
    config,       \* the stations part of the configuration file, once saved
    rop,          \* the registry operation made by the latest step, if any
    atan2_out,    \* haversine: the value atan2 returned for the bearing
    bearing,      \* haversine: the bearing returned
    station_log,  \* MainWindow.station_log[name]: the lines shown, by line number
    log_len       \* per station: the number of lines of the log last handed over

stationVars == <<order, stations, local, remote, statusDir, unreported>>
workerVars == <<wpc, widx, wstep, wmode, passLog, emitted, wcontext, wstart>>
guiVars == <<syncing, timerActive, nActive, settingsOk, resDir, win, context>>
plotVars == <<scan, station_so2_data>>
registryVars == <<info, config, rop>>
plumeVars == <<atan2_out, bearing>>
logVars == <<station_log, log_len>>
vars == <<order, stations, local, remote, statusDir, unreported, syncing, timerActive, nActive, wpc,
          widx, wstep, wmode, passLog, emitted, wcontext, wstart, context, settingsOk,
          resDir, win, tick, last, prev, scan, station_so2_data, info, config,
          rop, atan2_out, bearing, station_log, log_len>>

Range(s) == {s[i] : i \in 1..Len(s)}

\* =========================================================================
\* Station (src/openso2gui/station.py)
\* =========================================================================

\* Station.__init__: a new station has no session
Station(sync_flag) ==
    [sync_flag |-> sync_flag, connected |-> FALSE, sftp |-> "none"]

\* variant: the channel is opened but the flag is not set
connectFlagUnset(st) == [st EXCEPT !.sftp = "open"]

\* Station.connect, when ssh_client.connect and open_sftp succeed
connect(st) == [st EXCEPT !.sftp = "open", !.connected = TRUE]

\* variant: a torn-down session is never reopened
NeedConnectOnce(st) == st.sftp = "none"

\* "if not self.connected: self.connect()"
NeedConnect(st) == ~st.connected

\* variant: the handler closes the channel but keeps the flag
TeardownKeepsFlag(st) == [st EXCEPT !.sftp = "closed"]

\* the except branches: self.sftp.close(); self.connected = False
Teardown(st) == [st EXCEPT !.sftp = "closed", !.connected = FALSE]

\* variant: every remote file is fetched
files_to_sync_all(remote_files, local_files) == remote_files

\* files_to_sync = [f for f in remote_files if f not in local_files]
files_to_sync(remote_files, local_files) ==
    SelectSeq(remote_files, LAMBDA f : f \notin local_files)

\* outcomes of one transport request
GetFaults == {"ok", "OSError", "SSHException"}
ListFaults == {"ok", "OSError", "SSHException"}
FileFaults == {"ok", "FileNotFoundError", "OSError", "SSHException"}
ConnectFaults == {"ok", "fail"}

\* variant: the first failed copy ends the loop
RECURSIVE CopyFilesAbort(_, _, _)
CopyFilesAbort(todo, fg, acc) ==
    IF todo = <<>> THEN acc
    ELSE LET f == Head(todo)
             a == [acc EXCEPT !.gets = Append(@, f)]
         IN  CASE fg[f] = "ok" ->
                    CopyFilesAbort(Tail(todo), fg,
                        [a EXCEPT !.files = @ \cup {f}, !.new = Append(@, f)])
               [] fg[f] = "OSError" -> a
               [] OTHER -> [a EXCEPT !.ssh = TRUE]

\* variant: the copy is written outside local_dir
RECURSIVE CopyFilesElsewhere(_, _, _)
CopyFilesElsewhere(todo, fg, acc) ==
    IF todo = <<>> THEN acc
    ELSE LET f == Head(todo)
             a == [acc EXCEPT !.gets = Append(@, f)]
         IN  CASE fg[f] = "ok" ->
                    CopyFilesElsewhere(Tail(todo), fg,
                        [a EXCEPT !.new = Append(@, f)])
               [] fg[f] = "OSError" -> CopyFilesElsewhere(Tail(todo), fg, a)
               [] OTHER -> [a EXCEPT !.ssh = TRUE]

\* the loop "for fname in files_to_sync": acc = [files, new, gets, ssh]
RECURSIVE CopyFiles(_, _, _)
CopyFiles(todo, fg, acc) ==
    IF todo = <<>> THEN acc
    ELSE LET f == Head(todo)
             a == [acc EXCEPT !.gets = Append(@, f)]
         IN  CASE fg[f] = "ok" ->
                    CopyFiles(Tail(todo), fg,
                        [a EXCEPT !.files = @ \cup {f}, !.new = Append(@, f)])
               [] fg[f] = "OSError" -> CopyFiles(Tail(todo), fg, a)
               [] OTHER -> [a EXCEPT !.ssh = TRUE]

\* the outcome of a call of a Station method: the station and its local
\* directory after the call, the transport requests made, what is returned,
\* and cond, the condition other than a transport fault that the call met:
\* "missing_local", "missing_remote" (FileNotFoundError) or "malformed"
Outcome(st, loc) ==
    [st |-> st, loc |-> loc, trace |-> <<>>, gets |-> <<>>, new |-> <<>>,
     err |-> FALSE, raised |-> "none", ssh |-> FALSE, path |-> FALSE,
     status |-> "none", made |-> FALSE, cond |-> "none"]

TraceOfGets(gets) == [i \in 1..Len(gets) |-> "get"]

\* variant: a missing remote directory is handled as a communication error
NoFilesFoundAsError(o, tr) ==
    [o EXCEPT !.st = Teardown(o.st), !.trace = tr \o <<"listdir", "close">>,
              !.err = TRUE, !.cond = "missing_remote"]

\* "except FileNotFoundError: logger.info('No files found'); return [], [False, '']"
NoFilesFound(o, tr) ==
    [o EXCEPT !.trace = tr \o <<"listdir">>, !.cond = "missing_remote"]

\* Station.sync(local_dir, remote_dir)
\*   fc: outcome of connect, fl: of sftp.listdir, fg: of sftp.get per file
sync(st, loc, rem, fc, fl, fg) ==
    LET st1 == IF NeedConnect(st) THEN connect(st) ELSE st
        tr1 == IF NeedConnect(st) THEN <<"connect">> ELSE <<>>
        o == Outcome(st1, loc)
    IN  IF NeedConnect(st) /\ fc # "ok"
        THEN [Outcome(st, loc) EXCEPT !.trace = <<"connect">>,
                                      !.raised = "ConnectError"]
        ELSE IF ~loc.exists
        THEN \* os.listdir raises FileNotFoundError: the outer handler
             [o EXCEPT !.st = Teardown(st1), !.trace = tr1 \o <<"close">>,
                       !.err = TRUE, !.cond = "missing_local"]
        ELSE IF fl = "SSHException"
        THEN [o EXCEPT !.st = Teardown(st1),
                       !.trace = tr1 \o <<"listdir", "close">>,
                       !.err = TRUE, !.ssh = TRUE]
        ELSE IF fl = "OSError"
        THEN [o EXCEPT !.trace = tr1 \o <<"listdir">>, !.raised = "OSError"]
        ELSE IF ~rem.exists
        THEN NoFilesFound(o, tr1)
        ELSE LET c == CopyFiles(files_to_sync(rem.listing, loc.files), fg,
                        [files |-> loc.files, new |-> <<>>, gets |-> <<>>,
                         ssh |-> FALSE])
                 tr2 == tr1 \o <<"listdir">> \o TraceOfGets(c.gets)
             IN  IF c.ssh
                 THEN [o EXCEPT !.st = Teardown(st1),
                                !.loc = [loc EXCEPT !.files = c.files],
                                !.trace = tr2 \o <<"close">>,
                                !.gets = c.gets, !.new = <<>>,
                                !.err = TRUE, !.ssh = TRUE]
                 ELSE [o EXCEPT !.loc = [loc EXCEPT !.files = c.files],
                                !.trace = tr2, !.gets = c.gets,
                                !.new = c.new]

\* Station.pull_status(): fg is the outcome of sftp.get of the status file,
\* line the content of its first line, stripped: a sequence of pieces of
\* text, " - " standing for an occurrence of the separator
StatusLines ==
    {<<>>, <<"time">>, <<"time", " - ", "status">>,
     <<"time", " - ", "status", " - ", "more">>}

\* the number of items of line.split(' - '): one for the empty line
split(line) == Cardinality({i \in 1..Len(line) : line[i] = " - "}) + 1

pull_status(st, loc, fc, fg, line) ==
    LET st1 == IF NeedConnect(st) THEN connect(st) ELSE st
        tr1 == IF NeedConnect(st) THEN <<"connect">> ELSE <<>>
        \* "if not os.path.exists('Station'): os.makedirs('Station')"
        o == [Outcome(st1, loc) EXCEPT !.trace = tr1 \o <<"get">>,
                                       !.made = TRUE]
    IN  IF NeedConnect(st) /\ fc # "ok"
        THEN [Outcome(st, loc) EXCEPT !.trace = <<"connect">>,
                                      !.raised = "ConnectError"]
        ELSE CASE fg = "SSHException" ->
                    [o EXCEPT !.st = Teardown(st1),
                              !.trace = tr1 \o <<"get", "close">>,
                              !.err = TRUE, !.ssh = TRUE, !.status = "N/C"]
               [] fg = "FileNotFoundError" ->
                    [o EXCEPT !.raised = "FileNotFoundError",
                              !.cond = "missing_remote"]
               [] fg = "OSError" -> [o EXCEPT !.raised = "OSError"]
               [] OTHER ->
                    \* "time, status = ...": two items or ValueError
                    IF split(line) = 2 THEN [o EXCEPT !.status = "parsed"]
                    ELSE [o EXCEPT !.raised = "ValueError",
                                   !.cond = "malformed"]

\* variant: no handler for the missing log, as in pull_status
pull_logUnhandled(st, loc, fc, fg) ==
    LET st1 == IF NeedConnect(st) THEN connect(st) ELSE st
        tr1 == IF NeedConnect(st) THEN <<"connect">> ELSE <<>>
        loc1 == IF loc.exists THEN loc ELSE [exists |-> TRUE, files |-> {}]
        o == [Outcome(st1, loc1) EXCEPT !.trace = tr1 \o <<"get">>]
    IN  IF NeedConnect(st) /\ fc # "ok"
        THEN [Outcome(st, loc) EXCEPT !.trace = <<"connect">>,
                                      !.raised = "ConnectError"]
        ELSE CASE fg = "SSHException" ->
                    [o EXCEPT !.st = Teardown(st1),
                              !.trace = tr1 \o <<"get", "close">>,
                              !.err = TRUE, !.ssh = TRUE]
               [] fg = "ok" -> [o EXCEPT !.path = TRUE]
               [] fg = "FileNotFoundError" ->
                    [o EXCEPT !.cond = "missing_remote",
                              !.raised = "FileNotFoundError"]
               [] OTHER -> o

\* Station.pull_log(local_dir, remote_dir, sdate): fg is the outcome of
\* sftp.get of the dated log
pull_log(st, loc, fc, fg) ==
    LET st1 == IF NeedConnect(st) THEN connect(st) ELSE st
        tr1 == IF NeedConnect(st) THEN <<"connect">> ELSE <<>>
        loc1 == IF loc.exists THEN loc ELSE [exists |-> TRUE, files |-> {}]
        o == [Outcome(st1, loc1) EXCEPT !.trace = tr1 \o <<"get">>]
    IN  IF NeedConnect(st) /\ fc # "ok"
        THEN [Outcome(st, loc) EXCEPT !.trace = <<"connect">>,
                                      !.raised = "ConnectError"]
        ELSE CASE fg = "SSHException" ->
                    [o EXCEPT !.st = Teardown(st1),
                              !.trace = tr1 \o <<"get", "close">>,
                              !.err = TRUE, !.ssh = TRUE]
               [] fg = "ok" -> [o EXCEPT !.path = TRUE]
               [] fg = "FileNotFoundError" ->
                    [o EXCEPT !.cond = "missing_remote"]
               [] OTHER -> o

\* the record kept of a call: the station before the call, what it was given
\* and what it did
CallRecord(op, name, st, loc, rem, o) ==
    [op |-> op, name |-> name, flag |-> st.sync_flag, pre |-> st.connected,
     loc0 |-> loc, rem0 |-> rem, loc1 |-> o.loc, post |-> o.st.connected,
     sftp |-> o.st.sftp, trace |-> o.trace, gets |-> o.gets, new |-> o.new,
     err |-> o.err, raised |-> o.raised, ssh |-> o.ssh, path |-> o.path,
     status |-> o.status, cond |-> o.cond]

NoDir == [exists |-> FALSE, files |-> {}]
NoRemote == [exists |-> FALSE, listing |-> <<>>]
NoCall == CallRecord("none", "A", Station(TRUE), NoDir, NoRemote,
                     Outcome(Station(TRUE), NoDir))

\* the effect of a call on the station, its local directory and the records
Called(op, name, o) ==
    /\ stations' = [stations EXCEPT ![name] = o.st]
    /\ local' = [local EXCEPT ![name] = o.loc]
    /\ statusDir' = (statusDir \/ o.made)
    /\ unreported' = [unreported EXCEPT ![name] =
            (@ \cup (o.loc.files \ local[name].files)) \ Range(o.new)]
    /\ last' = CallRecord(op, name, stations[name], local[name],
                          remote[name], o)

\* what the next call needs to know of the call before it: ok means that the
\* call returned without error, clean that it also copied every file it asked for
Summary(c) ==
    [op |-> c.op, ssh |-> c.ssh, copied |-> c.new # <<>>,
     ok |-> ~c.err /\ c.raised = "none",
     clean |-> ~c.err /\ c.raised = "none" /\ Len(c.new) = Len(c.gets)]
NoSummary == Summary(NoCall)

FaultMaps == [Files -> GetFaults]

\* every listing a remote directory can return: no file name twice
Listings ==
    {l \in UNION {[1..n -> Files] : n \in 0..MaxFiles} :
        \A i, j \in 1..Len(l) : l[i] = l[j] => i = j}
LocalDirs == {NoDir} \cup {[exists |-> TRUE, files |-> F] : F \in SUBSET Files}
RemoteDirs == {NoRemote} \cup {[exists |-> TRUE, listing |-> l] : l \in Listings}

\* =========================================================================
\* MainWindow (src/OpenSO2UI.py): the sync windows and the sync thread
\* =========================================================================

\* variant: both ends of the window belong to it
InWindowClosed(start, stop, ts) == start <= ts /\ ts <= stop

\* "sync_so2_start < ts and ts < sync_so2_stop"
InWindow(start, stop, ts) == start < ts /\ ts < stop

sync_so2_flag(w, ts) == InWindow(w.so2_start, w.so2_stop, ts)
sync_spec_flag(w, ts) == InWindow(w.spec_start, w.spec_stop, ts)

\* variant: the first window that matches decides, "both" is never chosen
sync_modeFirstMatch(w, ts) ==
    IF sync_so2_flag(w, ts) THEN "so2"
    ELSE IF sync_spec_flag(w, ts) THEN "spectra"
    ELSE "none"

\* the four "if" of _station_sync; "none" is the early return
sync_mode(w, ts) ==
    IF sync_so2_flag(w, ts) /\ sync_spec_flag(w, ts) THEN "both"
    ELSE IF sync_so2_flag(w, ts) THEN "so2"
    ELSE IF sync_spec_flag(w, ts) THEN "spectra"
    ELSE "none"

\* no invocation of _station_sync
NoTick == [now |-> 0, outcome |-> "none"]

\* variant: the running thread is not looked at
isRunningUnchecked == FALSE

\* self.syncThread.isRunning(); no thread yet (AttributeError) counts as not running
isRunning == nActive > 0

\* the window settings the model starts from
WindowConfigs ==
    {[so2_start |-> 0, so2_stop |-> 3, spec_start |-> 1, spec_stop |-> 4]}

\* variant: the loop visits every station
NextEnabledAny(i) == IF i > Len(order) THEN Len(order) + 1 ELSE i

\* SyncWorker's station loop (spec.md 4.5 step 5): the first station at or
\* after index i whose sync_flag is set
RECURSIVE NextEnabled(_)
NextEnabled(i) ==
    IF i > Len(order) THEN Len(order) + 1
    ELSE IF stations[order[i]].sync_flag THEN i
    ELSE NextEnabled(i + 1)

NoPass == [n \in Names |-> "none"]

\* _station_sync, from "self.syncThread = QThread()" to "self.syncThread.start()"
StartPass(mode) ==
    /\ nActive' = nActive + 1
    /\ wpc' = "run"
    /\ widx' = NextEnabled(1)
    /\ wstep' = "status"
    /\ wmode' = mode
    /\ passLog' = NoPass
    /\ emitted' = <<>>
    /\ wcontext' = context
    /\ wstart' = {n \in Range(order) : stations[n].sync_flag}

\* variant: the results folder is made before the sync mode is looked at
station_syncFolderFirst(now) ==
    IF isRunning
    THEN /\ tick' = [now |-> 0, outcome |-> "skipped"]
         /\ UNCHANGED <<nActive, resDir>> /\ UNCHANGED workerVars
    ELSE IF sync_mode(win, now) = "none"
    THEN /\ tick' = [now |-> now, outcome |-> "idle"]
         /\ resDir' = TRUE
         /\ UNCHANGED nActive /\ UNCHANGED workerVars
    ELSE IF ~settingsOk
    THEN /\ tick' = [now |-> now, outcome |-> "raised"]
         /\ resDir' = TRUE
         /\ UNCHANGED nActive /\ UNCHANGED workerVars
    ELSE /\ tick' = [now |-> now, outcome |-> "started"]
         /\ resDir' = TRUE
         /\ StartPass(sync_mode(win, now))

\* MainWindow._station_sync at wall-clock time now
station_sync(now) ==
    IF isRunning
    THEN /\ tick' = [now |-> 0, outcome |-> "skipped"]
         /\ UNCHANGED <<nActive, resDir>> /\ UNCHANGED workerVars
    ELSE IF sync_mode(win, now) = "none"
    THEN /\ tick' = [now |-> now, outcome |-> "idle"]
         /\ UNCHANGED <<nActive, resDir>> /\ UNCHANGED workerVars
    ELSE IF ~settingsOk
    THEN \* os.makedirs(res_dir) is done, then float() raises ValueError
         /\ tick' = [now |-> now, outcome |-> "raised"]
         /\ resDir' = TRUE
         /\ UNCHANGED nActive /\ UNCHANGED workerVars
    ELSE /\ tick' = [now |-> now, outcome |-> "started"]
         /\ resDir' = TRUE
         /\ StartPass(sync_mode(win, now))

\* variant: turning syncing off also ends the running pass
toggleSyncCancels ==
    /\ IF syncing
       THEN /\ syncing' = FALSE
            /\ timerActive' = FALSE
            /\ tick' = NoTick
            /\ wpc' = "idle" /\ nActive' = 0
            /\ UNCHANGED <<resDir, widx, wstep, wmode, passLog, emitted,
                           wcontext, wstart>>
       ELSE /\ syncing' = TRUE
            /\ \E now \in Times :
                /\ station_sync(now)
                /\ timerActive' = (tick'.outcome # "raised")
    /\ last' = NoCall
    /\ UNCHANGED <<settingsOk, win, context, prev>>
    /\ UNCHANGED stationVars /\ UNCHANGED plotVars /\ UNCHANGED registryVars /\ UNCHANGED plumeVars /\ UNCHANGED logVars

\* MainWindow.toggleSync
toggleSync ==
    /\ IF syncing
       THEN /\ syncing' = FALSE
            /\ timerActive' = FALSE
            /\ tick' = NoTick
            /\ UNCHANGED <<nActive, resDir>> /\ UNCHANGED workerVars
       ELSE /\ syncing' = TRUE
            /\ \E now \in Times :
                /\ station_sync(now)
                \* the timer is created only if _station_sync returned
                /\ timerActive' = (tick'.outcome # "raised")
    /\ last' = NoCall
    /\ UNCHANGED <<settingsOk, win, context, prev>>
    /\ UNCHANGED stationVars /\ UNCHANGED plotVars /\ UNCHANGED registryVars /\ UNCHANGED plumeVars /\ UNCHANGED logVars

\* syncTimer.timeout -> _station_sync
TimerTick ==
    /\ timerActive
    /\ \E now \in Times : station_sync(now)
    /\ last' = NoCall
    /\ UNCHANGED <<syncing, timerActive, settingsOk, win, context, prev>>
    /\ UNCHANGED stationVars /\ UNCHANGED plotVars /\ UNCHANGED registryVars /\ UNCHANGED plumeVars /\ UNCHANGED logVars

\* the operator edits the text of a numeric setting (vlat, vlon, ...)
EditSetting ==
    /\ settingsOk' = ~settingsOk
    /\ tick' = NoTick /\ last' = NoCall
    /\ UNCHANGED <<syncing, timerActive, nActive, resDir, win, context, prev>>
    /\ UNCHANGED stationVars /\ UNCHANGED workerVars
    /\ UNCHANGED plotVars /\ UNCHANGED registryVars /\ UNCHANGED plumeVars /\ UNCHANGED logVars

\* the values _station_sync reads for the worker: the date, the volcano
\* location, the plume speed, altitude and direction, the scan pairing and
\* the four limits, taken together
Contexts == {"c1", "c2"}

\* variant: the running worker sees the widgets
EditContextShared ==
    /\ \E c \in Contexts \ {context} :
        /\ context' = c
        /\ wcontext' = IF wpc = "run" THEN c ELSE wcontext
        /\ UNCHANGED wstart
    /\ tick' = NoTick /\ last' = NoCall
    /\ UNCHANGED <<syncing, timerActive, nActive, settingsOk, resDir, win, prev>>
    /\ UNCHANGED <<wpc, widx, wstep, wmode, passLog, emitted>>
    /\ UNCHANGED stationVars /\ UNCHANGED plotVars /\ UNCHANGED registryVars /\ UNCHANGED plumeVars /\ UNCHANGED logVars

\* the operator changes one of these settings, or the date changes
EditContext ==
    /\ \E c \in Contexts \ {context} : context' = c
    /\ tick' = NoTick /\ last' = NoCall
    /\ UNCHANGED <<syncing, timerActive, nActive, settingsOk, resDir, win, prev>>
    /\ UNCHANGED stationVars /\ UNCHANGED workerVars
    /\ UNCHANGED plotVars /\ UNCHANGED registryVars /\ UNCHANGED plumeVars /\ UNCHANGED logVars

\* =========================================================================
\* SyncWorker.run (spec.md 4.5, steps 5 and 6)
\* =========================================================================

\* variant: the notifications are held back
NotesNone(s, step, o) == <<>>

\* the notifications the loop emits when the call step on station s has
\* returned o (spec.md 4.5 step 5): the status after pull_status, the log
\* after a pull_log without error; nothing when the call raised
Notes(s, step, o) ==
    IF o.raised # "none" THEN <<>>
    ELSE IF step = "status" THEN <<[name |-> s, kind |-> "status"]>>
    ELSE IF step = "log" /\ ~o.err THEN <<[name |-> s, kind |-> "log"]>>
    ELSE <<>>

\* what the loop does with the outcome o of the call wstep on order[widx]
WorkerAdvance(o, nextStep) ==
    LET s == order[widx]
    IN  /\ emitted' = emitted \o Notes(s, wstep, o)
        /\ IF o.raised # "none"
           THEN \* the exception leaves the loop: reported through the error signal
                /\ passLog' = [passLog EXCEPT ![s] = o.raised]
                /\ widx' = Len(order) + 1
                /\ wstep' = "status"
           ELSE IF o.err
           THEN \* the station's error is recorded, the loop goes on
                /\ passLog' = [passLog EXCEPT ![s] = "error"]
                /\ widx' = NextEnabled(widx + 1)
                /\ wstep' = "status"
           ELSE IF nextStep = "status"
           THEN /\ passLog' = [passLog EXCEPT ![s] = "ok"]
                /\ widx' = NextEnabled(widx + 1)
                /\ wstep' = "status"
           ELSE /\ wstep' = nextStep
                /\ UNCHANGED <<passLog, widx>>

WorkerAt(step) == wpc = "run" /\ widx <= Len(order) /\ wstep = step

WorkerPullStatus ==
    /\ WorkerAt("status")
    /\ \E fc \in ConnectFaults, fg \in FileFaults, line \in StatusLines :
        LET s == order[widx]
            o == pull_status(stations[s], local[s], fc, fg, line)
        IN  Called("pull_status", s, o) /\ WorkerAdvance(o, "log")
    /\ tick' = NoTick
    /\ UNCHANGED plotVars /\ UNCHANGED registryVars /\ UNCHANGED plumeVars /\ UNCHANGED logVars
    /\ UNCHANGED <<order, remote, wpc, wmode, wcontext, wstart, prev>> /\ UNCHANGED guiVars

WorkerPullLog ==
    /\ WorkerAt("log")
    /\ \E fc \in ConnectFaults, fg \in FileFaults :
        LET s == order[widx]
            o == pull_log(stations[s], local[s], fc, fg)
        IN  Called("pull_log", s, o) /\ WorkerAdvance(o, "sync")
    /\ tick' = NoTick
    /\ UNCHANGED plotVars /\ UNCHANGED registryVars /\ UNCHANGED plumeVars /\ UNCHANGED logVars
    /\ UNCHANGED <<order, remote, wpc, wmode, wcontext, wstart, prev>> /\ UNCHANGED guiVars

WorkerSync ==
    /\ WorkerAt("sync")
    /\ \E fc \in ConnectFaults, fl \in ListFaults, fg \in FaultMaps :
        LET s == order[widx]
            o == sync(stations[s], local[s], remote[s], fc, fl, fg)
        IN  Called("sync", s, o) /\ WorkerAdvance(o, "status")
    /\ tick' = NoTick
    /\ UNCHANGED plotVars /\ UNCHANGED registryVars /\ UNCHANGED plumeVars /\ UNCHANGED logVars
    /\ UNCHANGED <<order, remote, wpc, wmode, wcontext, wstart, prev>> /\ UNCHANGED guiVars

\* step 6: the pass-complete notification (SyncWorker.finished)
WorkerFinish ==
    /\ wpc = "run" /\ widx > Len(order)
    /\ wpc' = "done"
    /\ tick' = NoTick /\ last' = NoCall
    /\ UNCHANGED <<widx, wstep, wmode, passLog, emitted, wcontext, wstart, prev>>
    /\ UNCHANGED guiVars /\ UNCHANGED stationVars /\ UNCHANGED plotVars /\ UNCHANGED registryVars /\ UNCHANGED plumeVars /\ UNCHANGED logVars

\* variant: finished is not connected to syncThread.quit
ThreadNeverQuits ==
    /\ wpc = "done"
    /\ wpc' = "idle"
    /\ tick' = NoTick /\ last' = NoCall
    /\ UNCHANGED <<nActive, widx, wstep, wmode, passLog, emitted, wcontext, wstart, prev>>
    /\ UNCHANGED <<syncing, timerActive, settingsOk, resDir, win, context>>
    /\ UNCHANGED stationVars /\ UNCHANGED plotVars /\ UNCHANGED registryVars /\ UNCHANGED plumeVars /\ UNCHANGED logVars

\* finished -> sync_finished and syncThread.quit: the thread stops running
ThreadQuit ==
    /\ wpc = "done"
    /\ wpc' = "idle"
    /\ nActive' = nActive - 1
    /\ tick' = NoTick /\ last' = NoCall
    /\ UNCHANGED <<widx, wstep, wmode, passLog, emitted, wcontext, wstart, prev>>
    /\ UNCHANGED <<syncing, timerActive, settingsOk, resDir, win, context>>
    /\ UNCHANGED stationVars /\ UNCHANGED plotVars /\ UNCHANGED registryVars /\ UNCHANGED plumeVars /\ UNCHANGED logVars

\* the station writes a new file (creating its results directory if needed)
RemoteAppear(s, f) ==
    /\ f \notin Range(remote[s].listing)
    /\ remote' = [remote EXCEPT ![s] =
                    [exists |-> TRUE, listing |-> Append(remote[s].listing, f)]]
    /\ last' = NoCall /\ prev' = NoSummary
    /\ UNCHANGED plotVars /\ UNCHANGED registryVars /\ UNCHANGED plumeVars /\ UNCHANGED logVars
    /\ UNCHANGED <<order, stations, local, statusDir, unreported, tick>>
    /\ UNCHANGED guiVars /\ UNCHANGED workerVars

\* =========================================================================
\* MainWindow.update_scan_plot (src/OpenSO2UI.py): the quality filter
\* =========================================================================

\* a float: a number, or nan (a fit that failed)
Float(v) == [nan |-> FALSE, v |-> v]
NaN == [nan |-> TRUE, v |-> 0]
Vals == (0 - MaxVal)..MaxVal
So2Values == {Float(v) : v \in Vals} \cup {NaN}
IntValues == {Float(v) : v \in Vals}

\* "<" and ">" of numpy: a comparison with nan is False
lt(a, b) == ~a.nan /\ ~b.nan /\ a.v < b.v
gt(a, b) == ~a.nan /\ ~b.nan /\ a.v > b.v

\* variant: the intensity rows are left out of the stack
maskScdOnly(so2, int, lim) ==
    [i \in 1..Len(so2) |->
        \/ lt(so2[i], Float(lim.lo_scd_lim))
        \/ gt(so2[i], Float(lim.hi_scd_lim))]

\* mask = np.vstack([so2 < lo_scd_lim, so2 > hi_scd_lim,
\*                   int < lo_int_lim, int > hi_int_lim]).any(axis=0)
mask(so2, int, lim) ==
    [i \in 1..Len(so2) |->
        \/ lt(so2[i], Float(lim.lo_scd_lim))
        \/ gt(so2[i], Float(lim.hi_scd_lim))
        \/ lt(int[i], Float(lim.lo_int_lim))
        \/ gt(int[i], Float(lim.hi_int_lim))]

\* variant: a masked entry is negated, not replaced
np_whereNegated(m, x, values) ==
    [i \in 1..Len(values) |->
        IF m[i] /\ ~values[i].nan THEN Float(0 - values[i].v) ELSE values[i]]

\* np.where(m, x, values)
np_where(m, x, values) ==
    [i \in 1..Len(values) |-> IF m[i] THEN x ELSE values[i]]

\* the values of the four limit widgets
QualityLimits ==
    [lo_scd_lim : -1..1, hi_scd_lim : 0..1, lo_int_lim : 0..1, hi_int_lim : 0..1]

\* the flattened SO2 and intensity arrays of the scans on disk (empty: no
\* scan file yet), with the limits and the 'Hide bad spectra?' checkbox
Scans ==
    UNION {[scan_so2 : [1..n -> So2Values], scan_int : [1..n -> IntValues],
            lim : QualityLimits, filter_spectra_flag : BOOLEAN]
           : n \in 0..MaxScan}
NoScan ==
    [scan_so2 |-> <<>>, scan_int |-> <<>>,
     lim |-> [lo_scd_lim |-> -1, hi_scd_lim |-> 1, lo_int_lim |-> 0,
              hi_int_lim |-> 1],
     filter_spectra_flag |-> FALSE]

\* self.station_so2_data = {}: no entry for the station yet
NoData == [set |-> FALSE, scan_so2 |-> <<>>]

\* the body of update_scan_plot, as far as station_so2_data is concerned
update_scan_plot(sc) ==
    IF Len(sc.scan_so2) = 0
    THEN \* "if len(scan_fnames) == 0: return"
         UNCHANGED station_so2_data
    ELSE IF sc.filter_spectra_flag /\ ~settingsOk
    THEN \* float(self.widgets.get('lo_scd_lim')) raises ValueError
         UNCHANGED station_so2_data
    ELSE station_so2_data' =
            [set |-> TRUE,
             scan_so2 |-> IF sc.filter_spectra_flag
                          THEN np_where(mask(sc.scan_so2, sc.scan_int, sc.lim),
                                        Float(0), sc.scan_so2)
                          ELSE sc.scan_so2]

\* SyncWorker.updatePlots -> update_scan_plot
UpdateScanPlot ==
    /\ update_scan_plot(scan)
    /\ tick' = NoTick /\ last' = NoCall
    /\ UNCHANGED <<scan, prev>> /\ UNCHANGED guiVars
    /\ UNCHANGED stationVars /\ UNCHANGED workerVars
    /\ UNCHANGED registryVars /\ UNCHANGED plumeVars /\ UNCHANGED logVars

\* filter_spectra_cb.stateChanged -> update_scan_plot
FilterToggled ==
    /\ scan' = [scan EXCEPT !.filter_spectra_flag = ~@]
    /\ update_scan_plot(scan')
    /\ tick' = NoTick /\ last' = NoCall
    /\ UNCHANGED prev /\ UNCHANGED guiVars
    /\ UNCHANGED stationVars /\ UNCHANGED workerVars
    /\ UNCHANGED registryVars /\ UNCHANGED plumeVars /\ UNCHANGED logVars

\* =========================================================================
\* haversine (src/openso2gui/plume.py)
\* =========================================================================

RECURSIVE Pow2(_)
Pow2(n) == IF n = 0 THEN 1 ELSE 2 * Pow2(n - 1)

Abs(x) == IF x < 0 THEN 0 - x ELSE x

\* number of binary digits of a natural number
RECURSIVE BitLen(_)
BitLen(n) == IF n = 0 THEN 0 ELSE 1 + BitLen(n \div 2)

\* the float nearest to x, ties to even: what a float operation returns
\* when its exact result is x
Round(x) ==
    LET a == Abs(x)
        e == BitLen(a) - Prec
    IN  IF e <= 0 THEN x
        ELSE LET q == Pow2(e)
                 lo == (a \div q) * q
                 r == a - lo
                 up == IF 2 * r > q \/ (2 * r = q /\ (a \div q) % 2 = 1)
                       THEN lo + q ELSE lo
             IN  IF x < 0 THEN 0 - up ELSE up

\* math.pi: the float nearest to 3.14159...
pi == Round((355 * Pow2(FracBits)) \div 113)

\* C fmod: exact, with the sign of x
fmod(x, y) == IF x < 0 THEN 0 - (Abs(x) % Abs(y)) ELSE x % Abs(y)

\* x % y on floats: "mod = fmod(x, y); if mod and ((y < 0) != (mod < 0)):
\* mod += y", the addition being a float addition
float_rem(x, y) ==
    LET mod == fmod(x, y)
    IN  IF mod # 0 /\ ((y < 0) # (mod < 0)) THEN Round(mod + y) ELSE mod

\* the floats atan2 can return: those between -pi and pi
Atan2Range == {x \in (0 - pi)..pi : Round(x) = x}

\* "bearing = atan2(...)" then "bearing = bearing % (2*pi)"
haversine ==
    /\ \E b \in Atan2Range :
        /\ atan2_out' = b
        /\ bearing' = float_rem(b, Round(2 * pi))
    /\ tick' = NoTick /\ last' = NoCall
    /\ UNCHANGED prev /\ UNCHANGED guiVars /\ UNCHANGED stationVars
    /\ UNCHANGED workerVars /\ UNCHANGED plotVars /\ UNCHANGED registryVars
    /\ UNCHANGED logVars

\* =========================================================================
\* The station log display (src/OpenSO2UI.py)
\* =========================================================================

\* the log as the list of its lines, a line standing for itself by number
LogText(n) == [i \in 1..n |-> i]

\* len(toPlainText().split('\n')): an empty display is one empty string
DisplayedCount(shown) == IF shown = <<>> THEN 1 ELSE Len(shown)

\* update_station_log(station, log_text): appendPlainText of every line of
\* log_text[len(text):]
update_station_log(station, log_text) ==
    LET text == DisplayedCount(station_log[station])
    IN  station_log' = [station_log EXCEPT ![station] =
            @ \o SubSeq(log_text, text + 1, Len(log_text))]

\* SyncWorker.updateLog -> update_station_log, the log having grown or not
UpdateStationLog ==
    /\ \E station \in Names, n \in 0..MaxLog :
        /\ n >= log_len[station]
        /\ log_len' = [log_len EXCEPT ![station] = n]
        /\ update_station_log(station, LogText(n))
    /\ tick' = NoTick /\ last' = NoCall
    /\ UNCHANGED prev /\ UNCHANGED guiVars /\ UNCHANGED stationVars
    /\ UNCHANGED workerVars /\ UNCHANGED plotVars /\ UNCHANGED registryVars
    /\ UNCHANGED plumeVars

\* =========================================================================
\* The station registry and the configuration file (src/OpenSO2UI.py)
\* =========================================================================

\* what the text of the wizard's Azimuth field can parse to with float()
Azimuths == {90, 400}

\* Station.name and Station.loc_info['azimuth'] of one station object
Info(name, azimuth) == [name |-> name, azimuth |-> azimuth]
NoInfo == [name |-> "none", azimuth |-> 0]

NoConfig == [saved |-> FALSE, keys |-> <<>>, stations |-> <<>>]
NoOp == [op |-> "none", key |-> "none"]

\* config['stations'][name] = {com_info, loc_info, sync_flag,
\* filter_spectra_flag} for name, station in self.stations.items()
Document(keys, sts, inf) ==
    [saved |-> TRUE, keys |-> keys,
     stations |-> [i \in 1..Len(keys) |->
                    [azimuth |-> inf[keys[i]].azimuth,
                     sync_flag |-> sts[keys[i]].sync_flag]]]

\* =========================================================================
\* The program: timer, toggle, worker thread and the stations' file systems
\* =========================================================================
Init ==
    /\ order = <<"A", "B">>
    /\ stations \in [Names -> {Station(TRUE), Station(FALSE)}]
    /\ local = [n \in Names |-> NoDir]
    \* station A has produced one file, station B nothing yet
    /\ remote = [n \in Names |-> IF n = "A"
                    THEN [exists |-> TRUE, listing |-> <<1>>] ELSE NoRemote]
    /\ statusDir = FALSE
    /\ unreported = [n \in Names |-> {}]
    /\ syncing = FALSE
    /\ timerActive = FALSE
    /\ nActive = 0
    /\ wpc = "idle" /\ widx = 1 /\ wstep = "status" /\ wmode = "none"
    /\ wcontext = "none" /\ context = "c1"
    /\ wstart = {}
    /\ passLog = NoPass
    /\ emitted = <<>>
    \* vlat and vlon are empty unless a configuration was loaded at start
    /\ settingsOk \in BOOLEAN
    /\ resDir = FALSE
    /\ win \in WindowConfigs
    /\ tick = NoTick
    /\ last = NoCall
    /\ prev = NoSummary
    /\ scan = NoScan
    /\ station_so2_data = NoData
    /\ info = [n \in Names |-> Info(n, 0)]
    /\ config = NoConfig
    /\ rop = NoOp
    /\ atan2_out = 0 /\ bearing = 0
    /\ station_log = [n \in Names |-> <<>>] /\ log_len = [n \in Names |-> 0]

WorkerNext ==
    WorkerPullStatus \/ WorkerPullLog \/ WorkerSync \/ WorkerFinish

Next ==
    \/ toggleSync
    \/ TimerTick
    \/ EditSetting
    \/ WorkerNext
    \/ ThreadQuit

Spec == Init /\ [][Next]_vars

\* the worker thread runs, and the event loop delivers its finished signal
LiveSpec == Spec /\ WF_vars(WorkerNext) /\ WF_vars(ThreadQuit)

\* the program with station A enabled and the settings being edited
InitContext ==
    /\ Init
    /\ stations = [n \in Names |-> Station(n = "A")]
    /\ settingsOk = TRUE

NextContext ==
    \/ toggleSync
    \/ TimerTick
    \/ EditContext
    \/ WorkerNext
    \/ ThreadQuit

SpecContext == InitContext /\ [][NextContext]_vars

\* =========================================================================
\* A single station driven directly through its methods
\* =========================================================================
CallSync ==
    /\ \E fc \in ConnectFaults, fl \in ListFaults, fg \in FaultMaps :
        Called("sync", "A",
               sync(stations["A"], local["A"], remote["A"], fc, fl, fg))
    /\ prev' = Summary(last)
    /\ UNCHANGED plotVars /\ UNCHANGED registryVars /\ UNCHANGED plumeVars /\ UNCHANGED logVars
    /\ UNCHANGED <<order, remote, tick>> /\ UNCHANGED guiVars
    /\ UNCHANGED workerVars

CallPullStatus ==
    /\ \E fc \in ConnectFaults, fg \in FileFaults, line \in StatusLines :
        Called("pull_status", "A",
               pull_status(stations["A"], local["A"], fc, fg, line))
    /\ prev' = Summary(last)
    /\ UNCHANGED plotVars /\ UNCHANGED registryVars /\ UNCHANGED plumeVars /\ UNCHANGED logVars
    /\ UNCHANGED <<order, remote, tick>> /\ UNCHANGED guiVars
    /\ UNCHANGED workerVars

CallPullLog ==
    /\ \E fc \in ConnectFaults, fg \in FileFaults :
        Called("pull_log", "A", pull_log(stations["A"], local["A"], fc, fg))
    /\ prev' = Summary(last)
    /\ UNCHANGED plotVars /\ UNCHANGED registryVars /\ UNCHANGED plumeVars /\ UNCHANGED logVars
    /\ UNCHANGED <<order, remote, tick>> /\ UNCHANGED guiVars
    /\ UNCHANGED workerVars

InitStation ==
    /\ order = <<"A", "B">>
    /\ stations = [n \in Names |-> Station(TRUE)]
    /\ local \in [Names -> LocalDirs] /\ local["B"] = NoDir
    /\ remote \in [Names -> RemoteDirs] /\ remote["B"] = NoRemote
    /\ statusDir = FALSE
    /\ unreported = [n \in Names |-> {}]
    /\ syncing = FALSE
    /\ timerActive = FALSE
    /\ nActive = 0
    /\ wpc = "idle" /\ widx = 1 /\ wstep = "status" /\ wmode = "none"
    /\ wcontext = "none" /\ context = "c1"
    /\ wstart = {}
    /\ passLog = NoPass
    /\ emitted = <<>>
    /\ settingsOk = TRUE
    /\ resDir = FALSE
    /\ win \in WindowConfigs
    /\ tick = NoTick
    /\ last = NoCall
    /\ prev = NoSummary
    /\ scan = NoScan
    /\ station_so2_data = NoData
    /\ info = [n \in Names |-> Info(n, 0)]
    /\ config = NoConfig
    /\ rop = NoOp
    /\ atan2_out = 0 /\ bearing = 0
    /\ station_log = [n \in Names |-> <<>>] /\ log_len = [n \in Names |-> 0]

\* variant: connect() looks at the state and does nothing when connected
ConnectOutcomeGuarded(st, loc, fc) ==
    IF st.connected THEN Outcome(st, loc)
    ELSE IF fc = "ok"
    THEN [Outcome(connect(st), loc) EXCEPT !.trace = <<"connect">>]
    ELSE [Outcome(st, loc) EXCEPT !.trace = <<"connect">>,
                                  !.raised = "ConnectError"]

\* a call of Station.connect(): ssh_client.connect and open_sftp are called
\* whatever self.connected is; when they raise, nothing has been assigned
ConnectOutcome(st, loc, fc) ==
    IF fc = "ok"
    THEN [Outcome(connect(st), loc) EXCEPT !.trace = <<"connect">>]
    ELSE [Outcome(st, loc) EXCEPT !.trace = <<"connect">>,
                                  !.raised = "ConnectError"]

CallConnect ==
    /\ \E fc \in ConnectFaults :
        Called("connect", "A", ConnectOutcome(stations["A"], local["A"], fc))
    /\ prev' = Summary(last)
    /\ UNCHANGED plotVars /\ UNCHANGED registryVars /\ UNCHANGED plumeVars /\ UNCHANGED logVars
    /\ UNCHANGED <<order, remote, tick>> /\ UNCHANGED guiVars
    /\ UNCHANGED workerVars

NextStation ==
    \/ CallSync
    \/ CallPullStatus
    \/ CallPullLog
    \/ \E f \in Files : RemoteAppear("A", f)

SpecStation == InitStation /\ [][NextStation]_vars

\* the same station, its connect() method called directly as well; the remote
\* directory holds one file
InitConnect ==
    /\ InitStation
    /\ local["A"] = NoDir
    /\ remote["A"] = [exists |-> TRUE, listing |-> <<1>>]

NextConnect ==
    \/ CallConnect
    \/ CallSync
    \/ CallPullStatus
    \/ CallPullLog

SpecConnect == InitConnect /\ [][NextConnect]_vars

\* =========================================================================
\* The timer and the sync windows alone: every setting of the two windows,
\* no station enabled, so that a pass ends as soon as it has started
\* =========================================================================

\* every value of the four time widgets sync_so2_start .. sync_spec_stop
AllWindows ==
    [so2_start : Times, so2_stop : Times, spec_start : Times, spec_stop : Times]

InitWindow ==
    /\ order = <<"A", "B">>
    /\ stations = [n \in Names |-> Station(FALSE)]
    /\ local = [n \in Names |-> NoDir]
    /\ remote = [n \in Names |-> NoRemote]
    /\ statusDir = FALSE
    /\ unreported = [n \in Names |-> {}]
    /\ syncing = FALSE
    /\ timerActive = FALSE
    /\ nActive = 0
    /\ wpc = "idle" /\ widx = 1 /\ wstep = "status" /\ wmode = "none"
    /\ wcontext = "none" /\ context = "c1"
    /\ wstart = {}
    /\ passLog = NoPass
    /\ emitted = <<>>
    /\ settingsOk = TRUE
    /\ resDir = FALSE
    /\ win \in AllWindows
    /\ tick = NoTick
    /\ last = NoCall
    /\ prev = NoSummary
    /\ scan = NoScan
    /\ station_so2_data = NoData
    /\ info = [n \in Names |-> Info(n, 0)]
    /\ config = NoConfig
    /\ rop = NoOp
    /\ atan2_out = 0 /\ bearing = 0
    /\ station_log = [n \in Names |-> <<>>] /\ log_len = [n \in Names |-> 0]

NextWindow ==
    \/ toggleSync
    \/ TimerTick
    \/ WorkerFinish
    \/ ThreadQuit

SpecWindow == InitWindow /\ [][NextWindow]_vars

\* =========================================================================
\* The scan plot alone: every scan, every setting of the limits
\* =========================================================================
InitFilter ==
    /\ order = <<"A", "B">>
    /\ stations = [n \in Names |-> Station(FALSE)]
    /\ local = [n \in Names |-> NoDir]
    /\ remote = [n \in Names |-> NoRemote]
    /\ statusDir = FALSE
    /\ unreported = [n \in Names |-> {}]
    /\ syncing = FALSE
    /\ timerActive = FALSE
    /\ nActive = 0
    /\ wpc = "idle" /\ widx = 1 /\ wstep = "status" /\ wmode = "none"
    /\ wcontext = "none" /\ context = "c1"
    /\ wstart = {}
    /\ passLog = NoPass
    /\ emitted = <<>>
    /\ settingsOk = TRUE
    /\ resDir = FALSE
    /\ win \in WindowConfigs
    /\ tick = NoTick
    /\ last = NoCall
    /\ prev = NoSummary
    /\ scan \in Scans
    /\ station_so2_data = NoData
    /\ info = [n \in Names |-> Info(n, 0)]
    /\ config = NoConfig
    /\ rop = NoOp
    /\ atan2_out = 0 /\ bearing = 0
    /\ station_log = [n \in Names |-> <<>>] /\ log_len = [n \in Names |-> 0]

NextFilter ==
    \/ UpdateScanPlot
    \/ FilterToggled

SpecFilter == InitFilter /\ [][NextFilter]_vars

\* =========================================================================
\* The station registry driven through the main window's buttons
\* =========================================================================

\* what a registry operation leaves alone
RegistryFrame ==
    /\ tick' = NoTick /\ last' = NoCall
    /\ UNCHANGED <<local, remote, statusDir, unreported, prev>>
    /\ UNCHANGED guiVars /\ UNCHANGED workerVars /\ UNCHANGED plotVars
    /\ UNCHANGED plumeVars /\ UNCHANGED logVars

\* self.stations[name] = Station(name, com_info, loc_info, sync_flag, ...)
newStation(name, azimuth, sync_flag) ==
    /\ order' = IF name \in Range(order) THEN order ELSE Append(order, name)
    /\ stations' = [stations EXCEPT ![name] = Station(sync_flag)]
    /\ info' = [info EXCEPT ![name] = Info(name, azimuth)]

\* the Add Station button: NewStationWizard accepted, then newStation
new_station ==
    /\ \E name \in Names, azimuth \in Azimuths, sync_flag \in BOOLEAN :
        /\ newStation(name, azimuth, sync_flag)
        /\ rop' = [op |-> "new", key |-> name]
    /\ UNCHANGED config
    /\ RegistryFrame

\* variant: the edit builds a new Station object
edit_stationRebuild ==
    /\ \E key \in Range(order), name \in Names, azimuth \in Azimuths,
          sync_flag \in BOOLEAN :
        /\ info' = [info EXCEPT ![key] = Info(name, azimuth)]
        /\ stations' = [stations EXCEPT ![key] = Station(sync_flag)]
        /\ rop' = [op |-> "edit", key |-> key]
    /\ UNCHANGED <<order, config>>
    /\ RegistryFrame

\* the Edit button: EditStationWizard.accept_action sets name, loc_info,
\* com_info and sync_flag of the object, and edit_station stores the object
\* under the key it was found under
edit_station ==
    /\ \E key \in Range(order), name \in Names, azimuth \in Azimuths,
          sync_flag \in BOOLEAN :
        /\ info' = [info EXCEPT ![key] = Info(name, azimuth)]
        /\ stations' = [stations EXCEPT ![key].sync_flag = sync_flag]
        /\ rop' = [op |-> "edit", key |-> key]
    /\ UNCHANGED <<order, config>>
    /\ RegistryFrame

\* the Close button: self.stations.pop(name)
delStation ==
    /\ \E key \in Range(order) :
        /\ order' = SelectSeq(order, LAMBDA k : k # key)
        /\ stations' = [stations EXCEPT ![key] = Station(FALSE)]
        /\ info' = [info EXCEPT ![key] = NoInfo]
        /\ rop' = [op |-> "del", key |-> key]
    /\ UNCHANGED config
    /\ RegistryFrame

\* saveConfig, with a file name chosen
saveConfig ==
    /\ config' = Document(order, stations, info)
    /\ rop' = [op |-> "save", key |-> "none"]
    /\ UNCHANGED <<order, stations, info>>
    /\ RegistryFrame

\* loadConfig of the saved file: with stations registered, self.del_station
\* does not exist, the AttributeError is caught and the label is skipped
loadConfig ==
    /\ config.saved
    /\ IF order # <<>>
       THEN UNCHANGED <<order, stations, info>>
       ELSE /\ order' = config.keys
            /\ stations' = [n \in Names |->
                    IF n \in Range(config.keys)
                    THEN Station(config.stations[
                            CHOOSE i \in 1..Len(config.keys) : config.keys[i] = n
                         ].sync_flag)
                    ELSE stations[n]]
            /\ info' = [n \in Names |->
                    IF n \in Range(config.keys)
                    THEN Info(n, config.stations[
                            CHOOSE i \in 1..Len(config.keys) : config.keys[i] = n
                         ].azimuth)
                    ELSE info[n]]
    /\ rop' = [op |-> "load", key |-> "none"]
    /\ UNCHANGED config
    /\ RegistryFrame

\* a pass reaches a registered station and its session opens
StationConnect ==
    /\ \E key \in Range(order) :
        /\ NeedConnect(stations[key])
        /\ stations' = [stations EXCEPT ![key] = connect(@)]
        /\ rop' = [op |-> "connect", key |-> key]
    /\ UNCHANGED <<order, info, config>>
    /\ RegistryFrame

\* the program starts without a configuration file: no station
InitRegistry ==
    /\ order = <<>>
    /\ stations = [n \in Names |-> Station(FALSE)]
    /\ local = [n \in Names |-> NoDir]
    /\ remote = [n \in Names |-> NoRemote]
    /\ statusDir = FALSE
    /\ unreported = [n \in Names |-> {}]
    /\ syncing = FALSE
    /\ timerActive = FALSE
    /\ nActive = 0
    /\ wpc = "idle" /\ widx = 1 /\ wstep = "status" /\ wmode = "none"
    /\ wcontext = "none" /\ context = "c1"
    /\ wstart = {}
    /\ passLog = NoPass
    /\ emitted = <<>>
    /\ settingsOk = FALSE
    /\ resDir = FALSE
    /\ win \in WindowConfigs
    /\ tick = NoTick
    /\ last = NoCall
    /\ prev = NoSummary
    /\ scan = NoScan
    /\ station_so2_data = NoData
    /\ info = [n \in Names |-> NoInfo]
    /\ config = NoConfig
    /\ rop = NoOp
    /\ atan2_out = 0 /\ bearing = 0
    /\ station_log = [n \in Names |-> <<>>] /\ log_len = [n \in Names |-> 0]

NextRegistry ==
    \/ new_station
    \/ edit_station
    \/ delStation
    \/ saveConfig
    \/ loadConfig
    \/ StationConnect

SpecRegistry == InitRegistry /\ [][NextRegistry]_vars

\* haversine called on its own
InitPlume == InitFilter /\ scan = NoScan

NextPlume == haversine

SpecPlume == InitPlume /\ [][NextPlume]_vars

\* the Edit button, the wizard accepted with only the Syncing field changed:
\* the station object, which the worker of a running pass holds too, has
\* its sync_flag set
EditSyncFlag ==
    /\ \E key \in Range(order) :
        /\ stations' = [stations EXCEPT ![key].sync_flag = ~@]
        /\ rop' = [op |-> "edit", key |-> key]
    /\ UNCHANGED <<order, info, config>>
    /\ RegistryFrame

\* the program with station A enabled, the stations being edited while
\* passes run: the worker holds the registry itself, not a copy
NextShared ==
    \/ toggleSync
    \/ TimerTick
    \/ WorkerNext
    \/ ThreadQuit
    \/ EditSyncFlag

SpecShared == InitContext /\ [][NextShared]_vars

\* the log display driven by the worker's log notifications
InitLog == InitFilter /\ scan = NoScan

NextLog == UpdateStationLog

SpecLog == InitLog /\ [][NextLog]_vars

\* =========================================================================
\* Properties
\* =========================================================================
Count(seq, x) == Cardinality({i \in 1..Len(seq) : seq[i] = x})
Pos(n) == CHOOSE i \in 1..Len(order) : order[i] = n
EnabledAfter(i) ==
    {j \in (i + 1)..Len(order) : stations[order[j]].sync_flag}

\* C1: at most one sync pass is active at any time; an invocation of
\* _station_sync that arrives while a pass is running is skipped, changes
\* nothing of the pass, the stations or the settings, and is not queued: a
\* pass starts only in the step of an invocation that found no pass running.
C1_OnePassAtATime ==
    /\ [](nActive <= 1)
    /\ [][(isRunning /\ tick'.outcome # "none")
            => /\ tick'.outcome = "skipped"
               /\ UNCHANGED <<stationVars, workerVars, nActive, settingsOk,
                              resDir, win>>]_vars
    /\ [][(nActive' > nActive \/ (wpc # "run" /\ wpc' = "run"))
            => (~isRunning /\ tick'.outcome = "started")]_vars

\* a tick has arrived while the pass was visiting a station
C1_Witness ==
    tick.outcome = "skipped" /\ nActive = 1 /\ wpc = "run" /\ widx <= Len(order)

\* C2: no method of a station whose sync_flag is false is ever called by a
\* pass: such a station is never connected and its local directory is never
\* created.
C2_DisabledNeverContacted ==
    /\ last.op # "none" => last.flag
    /\ \A n \in Names :
        ~stations[n].sync_flag =>
            stations[n] = Station(FALSE) /\ local[n] = NoDir

\* the pass has skipped the disabled station A and called station B
C2_Witness ==
    /\ ~stations["A"].sync_flag
    /\ last.op = "sync" /\ last.name = "B" /\ wpc = "run"

C5_FetchesRemoteOnly ==
    last.op = "sync" =>
        /\ Range(last.gets) \subseteq
                Range(last.rem0.listing) \ last.loc0.files
        /\ Count(last.trace, "get") = Len(last.gets)
        /\ Cardinality(Range(last.gets)) = Len(last.gets)
        /\ last.loc0.files \subseteq last.loc1.files
        /\ last.loc1.files \ last.loc0.files \subseteq Range(last.gets)
        /\ (last.loc0.exists /\ last.rem0.exists /\ ~last.ssh
                /\ last.raised = "none")
            => Range(last.gets) = Range(last.rem0.listing) \ last.loc0.files

\* a sync that copied a remote-only file while another remote file was local
C5_Witness ==
    /\ last.op = "sync" /\ last.new # <<>>
    /\ Range(last.rem0.listing) \cap last.loc0.files # {}

\* C6 (as amended): a sync that directly follows a sync which returned without
\* error and copied every file it asked for returns no new file name.
C6_SecondSyncEmptyAfterClean ==
    (last.op = "sync" /\ prev.op = "sync" /\ prev.clean) => last.new = <<>>

\* two syncs in a row: the first copied files, the second found nothing to do
C6_Witness ==
    /\ last.op = "sync" /\ prev.op = "sync" /\ prev.clean /\ prev.copied
    /\ ~last.err /\ last.raised = "none" /\ last.rem0.listing # <<>>

\* C6 as stated: of two syncs in a row that both return without error, with
\* no new remote file in between, the second returns no new file name.
C6_SecondSyncEmpty ==
    (last.op = "sync" /\ prev.op = "sync" /\ prev.ok
        /\ ~last.err /\ last.raised = "none")
    => last.new = <<>>

\* C7: a sync of an existing local directory whose remote directory does not
\* exist returns no file name and no error, copies nothing, leaves the local
\* directory as it was and keeps the session open.
C7_MissingRemoteIsNoFault ==
    (last.op = "sync" /\ last.loc0.exists /\ ~last.rem0.exists
        /\ last.raised = "none" /\ ~last.ssh)
    => /\ last.new = <<>> /\ ~last.err /\ last.gets = <<>>
       /\ last.loc1 = last.loc0
       /\ last.post /\ last.sftp = "open"
       /\ Count(last.trace, "close") = 0

\* a sync has listed a remote directory that does not exist
C7_Witness ==
    /\ last.op = "sync" /\ last.loc0.exists /\ ~last.rem0.exists
    /\ Count(last.trace, "listdir") = 1 /\ ~last.err /\ last.raised = "none"

\* C8: in a sync whose session stays up, every remote-only file is asked for,
\* in the order of the listing, whether or not earlier copies failed; the
\* files copied are all returned and all local, and no error is returned.
C8_CopiesAreIndependent ==
    (last.op = "sync" /\ last.loc0.exists /\ last.rem0.exists
        /\ last.raised = "none" /\ ~last.ssh)
    => /\ last.gets = SelectSeq(last.rem0.listing,
                                LAMBDA f : f \notin last.loc0.files)
       /\ ~last.err /\ last.post
       /\ Range(last.new) \subseteq Range(last.gets)
       /\ Range(last.new) = last.loc1.files \ last.loc0.files

\* the first copy of the batch failed and the second one was made
C8_Witness ==
    /\ last.op = "sync" /\ ~last.err /\ Len(last.gets) = 2
    /\ last.new = <<last.gets[2]>>

\* C9: a call in which the transport raises SSHException on the open session
\* closes the session, leaves the station not connected, and returns the
\* error with no file name and no path; nothing is raised.
C9_SessionFaultIsReturned ==
    (last.op # "none" /\ last.ssh)
    => /\ ~last.post /\ last.sftp = "closed"
       /\ last.err /\ last.raised = "none"
       /\ last.new = <<>> /\ ~last.path
       /\ last.trace[Len(last.trace)] = "close"
       /\ (last.op = "pull_status" => last.status = "N/C")

\* a pull_log on an open session has met an SSHException
C9_Witness ==
    last.op = "pull_log" /\ last.pre /\ last.ssh /\ ~last.post

\* C10: a call makes one connect attempt if the station is not connected and
\* none if it is; the attempt comes before any other request, and when it
\* fails nothing else is requested: no second attempt, no use of the session.
C10_OneConnectPerCall ==
    last.op # "none" =>
        /\ Count(last.trace, "connect") = (IF last.pre THEN 0 ELSE 1)
        /\ (~last.pre => last.trace[1] = "connect")
        /\ (last.raised = "ConnectError" => last.trace = <<"connect">>)

\* the call after a session fault has reconnected and used the new session
C10_Witness ==
    /\ prev.ssh /\ last.op # "none" /\ ~last.pre
    /\ last.trace[1] = "connect" /\ Len(last.trace) > 1 /\ last.post

\* C11: a call of sync, pull_status or pull_log in which the session could
\* not be established (the connect attempt is the only request made) returns
\* normally with the fault in its error value: nothing is raised.
C11_ConnectFaultIsReturned ==
    (last.op # "none" /\ ~last.pre /\ last.trace = <<"connect">>)
    => (last.raised = "none" /\ last.err)

\* C12: the sync mode of a tick is decided by the two window tests alone:
\* the tick is idle exactly when the time is in neither window, and the pass
\* it starts has mode both, so2 or spectra exactly when the time is in both
\* windows, in the processed-scan window only, or in the raw-spectra window
\* only.
C12_ModeIsTotal ==
    tick.outcome \in {"idle", "started"} =>
        LET a == sync_so2_flag(win, tick.now)
            b == sync_spec_flag(win, tick.now)
        IN  /\ (tick.outcome = "idle") <=> (~a /\ ~b)
            /\ (tick.outcome = "started") =>
                /\ wmode \in {"both", "so2", "spectra"}
                /\ (wmode = "both") <=> (a /\ b)
                /\ (wmode = "so2") <=> (a /\ ~b)
                /\ (wmode = "spectra") <=> (~a /\ b)

\* a tick inside both windows has started a pass of mode both
C12_Witness ==
    /\ tick.outcome = "started" /\ wmode = "both"
    /\ sync_so2_flag(win, tick.now) /\ sync_spec_flag(win, tick.now)

\* C13 (as amended): a window is the open interval (start, stop): a tick
\* takes the processed-scan (raw-spectra) data exactly when its time is
\* strictly after the start and strictly before the stop of that window; a
\* tick at exactly the start or the stop is outside, and a tick after the
\* processed-scan stop and strictly inside the raw-spectra window starts a
\* spectra pass.
C13_OpenWindow ==
    tick.outcome \in {"idle", "started"} =>
        LET so2 == tick.outcome = "started" /\ wmode \in {"so2", "both"}
            spec == tick.outcome = "started" /\ wmode \in {"spectra", "both"}
        IN  /\ so2 <=> (win.so2_start < tick.now /\ tick.now < win.so2_stop)
            /\ spec <=> (win.spec_start < tick.now /\ tick.now < win.spec_stop)
            /\ (tick.now \in {win.so2_start, win.so2_stop}) => ~so2
            /\ (tick.now \in {win.spec_start, win.spec_stop}) => ~spec
            /\ (win.so2_stop < tick.now /\ win.spec_start < tick.now
                    /\ tick.now < win.spec_stop)
                => (tick.outcome = "started" /\ wmode = "spectra")

\* a tick at exactly the start of a non-empty processed-scan window, outside
\* the raw-spectra window: nothing is synced
C13_Witness ==
    /\ tick.outcome = "idle" /\ tick.now = win.so2_start
    /\ win.so2_start < win.so2_stop

\* C13 as stated: a window is the half-open interval [start, stop), a tick at
\* exactly the start is inside.
C13_HalfOpenWindow ==
    tick.outcome \in {"idle", "started"} =>
        LET so2 == tick.outcome = "started" /\ wmode \in {"so2", "both"}
            spec == tick.outcome = "started" /\ wmode \in {"spectra", "both"}
        IN  /\ so2 <=> (win.so2_start <= tick.now /\ tick.now < win.so2_stop)
            /\ spec <=> (win.spec_start <= tick.now /\ tick.now < win.spec_stop)

\* C14: an invocation of _station_sync that finds no pass running and the
\* time in neither window is idle: it raises nothing (the timer is running
\* afterwards if syncing is on), starts no pass, calls no station, does not
\* create the results folder, and leaves the stations, their directories,
\* the thread and the settings as they were.
C14_IdleTickIsNoOp ==
    [][(tick'.outcome \notin {"none", "skipped"}
            /\ sync_mode(win, tick'.now) = "none")
        => /\ tick'.outcome = "idle"
           /\ syncing' => timerActive'
           /\ last' = NoCall
           /\ UNCHANGED <<stationVars, workerVars, nActive, resDir,
                          settingsOk, win>>]_vars

\* an idle tick after a pass that left a station connected
C14_Witness ==
    /\ tick.outcome = "idle" /\ nActive = 0 /\ timerActive
    /\ \E n \in Names : stations[n].connected

\* C15 (as amended): a call of connect() asks for a session whatever the
\* state of the station, also when it is connected; when the request
\* succeeds the station is connected with an open session, when it fails the
\* exception is raised and the station is as it was.
C15_ConnectAlwaysOpens ==
    last.op = "connect" =>
        /\ last.trace = <<"connect">>
        /\ last.raised = "none" => (last.post /\ last.sftp = "open")
        /\ last.raised # "none" =>
            (last.raised = "ConnectError" /\ last.post = last.pre)
        /\ ~last.err /\ last.loc1 = last.loc0

\* connect() called on a connected station has opened a session
C15_Witness ==
    /\ last.op = "connect" /\ last.pre /\ last.raised = "none"
    /\ Count(last.trace, "connect") = 1 /\ last.post

\* C15 as stated: connect() called on a connected station opens no session
\* and leaves the station as it is.
C15_ConnectOnlyIfNeeded ==
    (last.op = "connect" /\ last.pre)
    => (Count(last.trace, "connect") = 0 /\ last.post
            /\ last.raised = "none")

\* C16: a station becomes connected only in a call that made a connect
\* request, and a call closes the session or leaves a connected station not
\* connected only when the transport raised SSHException: a call that met a
\* missing local directory, a missing remote file or directory or a
\* malformed status line closes nothing and leaves the station connected.
C16_OnlyTransportFaultsTearDown ==
    last.op # "none" =>
        /\ (~last.pre /\ last.post) => last.trace[1] = "connect"
        /\ (Count(last.trace, "close") > 0 \/ (last.pre /\ ~last.post))
            => last.ssh
        /\ (last.cond # "none")
            => (Count(last.trace, "close") = 0 /\ last.post)

\* C17: a pull_log whose remote log does not exist returns no path and no
\* error, raises nothing and keeps the session open; after every pull_log
\* whose session was or could be established the local directory exists.
C17_MissingLogIsNoFault ==
    last.op = "pull_log" =>
        /\ (last.cond = "missing_remote")
            => /\ ~last.path /\ ~last.err /\ last.raised = "none"
               /\ last.post /\ last.sftp = "open"
               /\ Count(last.trace, "close") = 0
        /\ (last.raised # "ConnectError") => last.loc1.exists

\* a pull_log found no remote log and created the local directory
C17_Witness ==
    /\ last.op = "pull_log" /\ last.cond = "missing_remote"
    /\ ~last.loc0.exists /\ last.loc1.exists /\ ~last.path

\* C18: a pull_status whose remote status file does not exist returns
\* normally, without error, and leaves the station connected.
C18_MissingStatusIsNoFault ==
    (last.op = "pull_status" /\ last.cond = "missing_remote")
    => (last.raised = "none" /\ ~last.err /\ last.post)

\* C19: a pull_status whose status line does not split in two at ' - '
\* returns normally, raises nothing and leaves the session open.
C19_MalformedStatusIsWarning ==
    (last.op = "pull_status" /\ last.cond = "malformed")
    => /\ last.raised = "none"
       /\ last.post /\ Count(last.trace, "close") = 0

\* C20: with the filter on, the SO2 values kept for the station have the
\* length of the scan, and at every position the value is 0 when the SO2
\* column is below lo_scd_lim or above hi_scd_lim or the intensity is below
\* lo_int_lim or above hi_int_lim, and the value of the scan otherwise; the
\* values are those of the scan when no position is outside the limits.
C20_FilterIsPointwiseMask ==
    (station_so2_data.set /\ scan.filter_spectra_flag) =>
        LET values == scan.scan_so2
            ints == scan.scan_int
            out == station_so2_data.scan_so2
            bad(i) ==
                \/ ~values[i].nan /\ values[i].v < scan.lim.lo_scd_lim
                \/ ~values[i].nan /\ values[i].v > scan.lim.hi_scd_lim
                \/ ints[i].v < scan.lim.lo_int_lim
                \/ ints[i].v > scan.lim.hi_int_lim
        IN  /\ Len(out) = Len(values)
            /\ \A i \in 1..Len(values) :
                    out[i] = IF bad(i) THEN Float(0) ELSE values[i]
            /\ (\A i \in 1..Len(values) : ~bad(i)) => out = values

\* a filtered scan of two spectra: the first is masked for its intensity
\* alone, the second passes with a value that is not 0
C20_Witness ==
    /\ station_so2_data.set /\ scan.filter_spectra_flag
    /\ Len(scan.scan_so2) = 2
    /\ scan.scan_so2[1] = Float(1) /\ scan.lim.hi_scd_lim = 1
    /\ scan.scan_int[1].v < scan.lim.lo_int_lim
    /\ station_so2_data.scan_so2 = <<Float(0), scan.scan_so2[2]>>
    /\ scan.scan_so2[2] # Float(0)

\* C21: within a pass the stations are handled one after the other in
\* registry order: a call is made on the station being visited, no station
\* after it has been touched, the notifications emitted so far are in
\* registry order with a station's status before its log, and when the loop
\* has moved past a station that was synced without error, the status and
\* log of that station have already been emitted.
C21_ResultsInStationOrder ==
    wpc \in {"run", "done"} =>
        /\ \A k \in 1..Len(order) : k > widx => passLog[order[k]] = "none"
        /\ (last.op # "none" /\ widx <= Len(order)) => Pos(last.name) <= widx
        /\ \A i, j \in 1..Len(emitted) :
                i < j => /\ Pos(emitted[i].name) <= Pos(emitted[j].name)
                         /\ emitted[i].name = emitted[j].name
                            => (emitted[i].kind = "status"
                                    /\ emitted[j].kind = "log")
        /\ \A i \in 1..Len(emitted) :
                widx <= Len(order) => Pos(emitted[i].name) <= widx
        /\ \A k \in 1..Len(order) :
                (k < widx /\ passLog[order[k]] = "ok")
                => /\ Count(emitted, [name |-> order[k], kind |-> "status"]) = 1
                   /\ Count(emitted, [name |-> order[k], kind |-> "log"]) = 1

\* station A is done and its two notifications are out while station B is
\* being visited
C21_Witness ==
    /\ wpc = "run" /\ widx = 2 /\ wstep = "log"
    /\ passLog["A"] = "ok" /\ last.name = "B"
    /\ Len(emitted) = 3 /\ emitted[3].name = "B"

C23_AzimuthInRange ==
    \A i \in 1..Len(order) :
        info[order[i]].azimuth >= 0 /\ info[order[i]].azimuth < 360

\* C24: the name is the key of the registry: every station is stored under
\* the key equal to its own name, and no two registered stations have the
\* same name.
C24_NameIsUniqueKey ==
    /\ \A i \in 1..Len(order) : info[order[i]].name = order[i]
    /\ \A i, j \in 1..Len(order) :
            i # j => info[order[i]].name # info[order[j]].name

\* C25: an edit of a station (name, location, credentials, sync flag) leaves
\* the connected flag and the session of every station as they were; saving
\* the configuration leaves the stations as they were and writes a document
\* that is the same whatever the stations' connection state is.
C25_EditKeepsSession ==
    [][/\ (rop'.op = "edit") =>
            \A n \in Names : /\ stations'[n].connected = stations[n].connected
                             /\ stations'[n].sftp = stations[n].sftp
       /\ (rop'.op = "save") =>
            /\ stations' = stations
            /\ config' = Document(order,
                            [n \in Names |-> Station(stations[n].sync_flag)],
                            info)]_vars

\* a station with an open session was renamed, after a configuration was
\* saved
C25_Witness ==
    /\ rop.op = "edit"
    /\ stations[rop.key].connected /\ stations[rop.key].sftp = "open"
    /\ info[rop.key].name # rop.key
    /\ config.saved

\* C27: the bearing returned by haversine is at least 0 and below 2*pi.
C27_BearingInRange ==
    bearing >= 0 /\ bearing < Round(2 * pi)

\* C28: a tick that evaluates the sync windows while one of them has its
\* start later than its stop reports the window as unsupported: it is not
\* treated as a tick outside the window.
C28_InvertedWindowIsFlagged ==
    (/\ tick.outcome \notin {"none", "skipped"}
     /\ (win.so2_start > win.so2_stop \/ win.spec_start > win.spec_stop))
    => tick.outcome = "unsupported"

\* C29: sync asks for the copies in the order of the remote listing, and the
\* list it returns is the remote listing restricted to the files that the
\* call copied into the local directory, none of which was there before.
C29_NewNamesInListingOrder ==
    (last.op = "sync" /\ last.raised = "none") =>
        /\ last.gets = SelectSeq(last.rem0.listing,
                            LAMBDA f : f \in Range(last.gets))
        /\ last.new = SelectSeq(last.rem0.listing,
                LAMBDA f : f \in last.loc1.files \ last.loc0.files)
        /\ Range(last.new) \cap last.loc0.files = {}

\* C30: the names sync returns are exactly the files the call added to the
\* local directory, also when the call ends with a session error.
C30_ReturnedAreTheAdded ==
    (last.op = "sync" /\ last.raised = "none") =>
        Range(last.new) = last.loc1.files \ last.loc0.files

\* C31: when sync, pull_status or pull_log returns, the error flag and the
\* connection flag agree: an error is returned exactly when the station is
\* left not connected, and then its session has been closed; no error is
\* returned exactly when the station is left connected, its session open.
C31_ErrorIffTornDown ==
    (last.op \in {"sync", "pull_status", "pull_log"} /\ last.raised = "none")
    => /\ last.err <=> ~last.post
       /\ last.err => last.sftp = "closed"
       /\ ~last.err => last.sftp = "open"

\* a sync that connected and returned without error, after a call that
\* returned a session error
C31_Witness ==
    /\ last.op = "sync" /\ last.raised = "none"
    /\ ~last.pre /\ ~last.err /\ last.post
    /\ prev.op = "pull_status" /\ prev.ssh

\* C32: a file whose copy failed is not returned by that sync and is still
\* remote-only, so the next sync asks for it again; and once a sync returns
\* without error having copied every file it asked for, every remote file is
\* in the local directory and every file that sync calls have added there
\* has been returned by one of them.
C32_FailedCopyStaysEligible ==
    (last.op = "sync" /\ last.raised = "none") =>
        /\ \A f \in Range(last.gets) \ last.loc1.files :
                /\ f \notin Range(last.new)
                /\ f \in Range(files_to_sync(last.rem0.listing,
                                             last.loc1.files))
        /\ (~last.err /\ Len(last.new) = Len(last.gets) /\ last.rem0.exists)
            => /\ Range(last.rem0.listing) \subseteq last.loc1.files
               /\ unreported[last.name] = {}

\* C33: after any sequence of toggleSync calls, also when the _station_sync
\* that toggleSync makes has raised, syncing is on exactly when the periodic
\* timer is active.
C33_SyncingIffTimer ==
    syncing <=> timerActive

\* C34: turning syncing off stops the timer and nothing else: the worker
\* and the thread are left as they are, and a pass that is running still
\* reaches its pass-complete notification; no pass starts while syncing is
\* off; turning syncing on makes an invocation of _station_sync in the same
\* step, before any timer tick.
C34_OffStopsSchedulingOnly ==
    /\ [][/\ (syncing /\ ~syncing') =>
                (~timerActive' /\ UNCHANGED <<workerVars, nActive>>)
          /\ (tick'.outcome = "started") => syncing'
          /\ (~syncing /\ syncing') => tick'.outcome # "none"]_vars
    /\ (wpc = "run" /\ ~syncing) ~> (wpc = "done")

\* syncing was turned off during a pass, and the worker has since called
\* a station
C34_Witness ==
    /\ ~syncing /\ ~timerActive
    /\ wpc = "run" /\ last.op = "pull_log" /\ ~last.err

\* C35: the stations a pass visits are among those that were registered and
\* enabled when the pass started, whatever is edited while the pass runs.
C35_PassVisitsStartSet ==
    wpc \in {"run", "done"} =>
        \A n \in Names : passLog[n] # "none" => n \in wstart

\* C36: the quality mask is idempotent: masking the values that
\* update_scan_plot has stored, with the same intensities and limits, gives
\* those values again.
C36_MaskIsIdempotent ==
    (station_so2_data.set /\ scan.filter_spectra_flag) =>
        np_where(mask(station_so2_data.scan_so2, scan.scan_int, scan.lim),
                 Float(0), station_so2_data.scan_so2)
        = station_so2_data.scan_so2

\* a scan of which one value was masked and one was kept, under limits that
\* the fill value 0 itself does not meet
C36_Witness ==
    /\ station_so2_data.set /\ scan.filter_spectra_flag
    /\ scan.lim.lo_scd_lim > 0
    /\ \E i \in 1..Len(scan.scan_so2) :
            station_so2_data.scan_so2[i] # scan.scan_so2[i]
    /\ \E i \in 1..Len(scan.scan_so2) :
            /\ station_so2_data.scan_so2[i] = scan.scan_so2[i]
            /\ ~mask(scan.scan_so2, scan.scan_int, scan.lim)[i]

\* C37: after a load of a configuration the registered stations are exactly
\* the stations of the configuration, in its order, each with the azimuth
\* and the sync flag written there and without a session, whether or not
\* stations were registered before the load.
C37_LoadReplacesRegistry ==
    rop.op = "load" =>
        /\ order = config.keys
        /\ \A i \in 1..Len(config.keys) :
                /\ info[config.keys[i]] =
                        Info(config.keys[i], config.stations[i].azimuth)
                /\ stations[config.keys[i]] =
                        Station(config.stations[i].sync_flag)

\* C38: the lines shown for a station are the lines of the latest version of
\* its log handed over, in order, none missing and none twice.
C38_DisplayFollowsLog ==
    \A n \in Names : station_log[n] = LogText(log_len[n])

====
